---- MODULE Spec2Model ----
(***************************************************************************)
(* A model of tfrt::HostContext (host_context.cc): ParallelFor and its     *)
(* ParallelForExecutionContext, RunWhenReady, CancelExecution / Restart,   *)
(* EnqueueBlockingWork and the SharedContextManager.                       *)
(*                                                                         *)
(* Every C++ function is cut into its atomic steps (one action per step),  *)
(* so that TLC interleaves the threads at every shared access.  size_t and *)
(* int keep a width: SizeBits bits for size_t and IntBits for int, scaled  *)
(* down from 64 and 32.                                                    *)
(***************************************************************************)
EXTENDS Integers, Sequences, FiniteSets, Bags, TLC

\* ------------------------------------------------------------------ bounds

\* Width of size_t in the model (64 in the build).
SizeBits == 5
\* Largest min_block_size a caller of ParallelFor passes.
MaxMinBlock == 3
\* Largest parallelism level the work queue reports.
MaxP == 2
\* ParallelFor calls are explored when they make at most this many blocks.
MaxBlocks == 4
\* The AsyncValues a caller of RunWhenReady chooses from.
NumValues == 3
\* Longest list of values passed to RunWhenReady.
MaxValues == 3
\* Calls of CancelExecution and of Restart, each on a thread of its own.
MaxCancels == 3
MaxRestarts == 2
\* Threads that call GetOrCreateSharedContext, and the largest id they ask for.
MaxSharedCallers == 3
MaxSharedId == 1
\* Closures handed to EnqueueBlockingWork, and the room of the blocking queue.
MaxTasks == 3
BlockingQueueRoom == 2
\* Width of the instance index kept by HostContextPtr (8 in the build), and the
\* HostContexts the process constructs.
IndexBits == 2
MaxContexts == 4
\* The AndThen calls and the set calls made on an AsyncValue, each call on a
\* thread of its own.
MaxWaiters == 2
MaxSetCalls == 2

\* ------------------------------------------------------- integer arithmetic

SizeMod == 2 ^ SizeBits
SizeMax == SizeMod - 1
\* int is narrower than size_t (32 against 64 bits in the build).
IntBits == SizeBits - 1
IntMod == 2 ^ IntBits

Min(a, b) == IF a <= b THEN a ELSE b
Max(a, b) == IF a >= b THEN a ELSE b

\* size_t arithmetic wraps.
Add(a, b) == (a + b) % SizeMod
Sub(a, b) == (a - b) % SizeMod
Mul(a, b) == (a * b) % SizeMod

\* The conversion size_t -> int made by PendingBlocks(): the low IntBits bits,
\* read as a two's complement number.
SizeToInt(x) == LET low == x % IntMod IN IF low >= IntMod \div 2 THEN low - IntMod ELSE low
\* The conversion int -> size_t of the argument of EvalBlocks.
IntToSize(i) == i % SizeMod

kMaxOversharding == 4

\* ParallelForExecutionContext::DivUp; x + y - 1 is computed in size_t.
DivUp(x, y) == Sub(Add(x, y), 1) \div y

\* block_size of HostContext::ParallelFor.
BlockSize(n, min_block_size, P) == Max(min_block_size, n \div Mul(kMaxOversharding, P))

\* ------------------------------------------------------------------- state

VARIABLES
    ndebug,           \* TRUE: the build defines NDEBUG, assert() does nothing
    \* ParallelFor
    pf_pc,            \* where the thread that called ParallelFor is
    ctx,              \* the ParallelForExecutionContext: "none", "live", "freed"
    n_,               \* ctx->n_ (n of the call on the synchronous path)
    block_size_,      \* ctx->block_size_
    pending_blocks_,  \* ctx->pending_blocks_
    frames,           \* the EvalBlocks invocations in progress
    work_queue,       \* the tasks EnqueueWork has added and no worker has taken
    compute_calls,    \* bag of the ranges <<lo, hi>> compute was called with
    on_done_calls,    \* how often on_done was called
    ctx_misuse,       \* a thread used ctx after delete, or deleted it twice
    \* AsyncValue
    av_state,         \* per value: "Unresolved", "Concrete" or "Error"
    av_waiters,       \* per value: the waiter stack, newest first
    av_flush,         \* per value: the waiters its resolver detached and has yet to run
    \* RunWhenReady
    rwr_pc,           \* where the thread that called RunWhenReady is
    values,           \* the argument values
    scan_i,           \* index of the scan loop over values
    unavailable_values,
    reg_i,            \* index of the loop that registers the waiters
    data,             \* the CounterAndCallee: "none", "live", "freed"
    counter,          \* data->counter
    running,          \* per thread: the step of the waiter it is running
    callee_calls,     \* how often callee was called
    callee_threads,   \* the threads that called callee
    and_then_calls,   \* how many AndThen calls RunWhenReady made
    available_at_call,\* every value of the list was available when RunWhenReady was called
    data_misuse,      \* a thread used data after delete, or deleted it twice
    \* CancelExecution / Restart
    cancel_value_,    \* HostContext::cancel_value_: NULL or an ErrorAsyncValue
    err_state,        \* per ErrorAsyncValue: "none", "Error" or "destroyed"
    err_refs,         \* per ErrorAsyncValue: its reference count
    err_msg,          \* per ErrorAsyncValue: its message
    cancel_pc,        \* per CancelExecution call: where it is
    restart_pc,       \* per Restart call: where it is
    value,            \* per Restart call: the local value
    epoch,            \* how many Restart calls have exchanged cancel_value_
    cas_epoch,        \* per CancelExecution call: epoch at its compare_exchange, -1 before
    cas_won,          \* per CancelExecution call: its compare_exchange succeeded
    exchange_epoch,   \* per Restart call: epoch right after its exchange, -1 before
    \* SharedContextManager
    once_flag,        \* per id: item.second, "init", "running" or "done"
    instance,         \* per id: item.first, NULL or the SharedContext
    factory_calls,    \* per id: how often factory was invoked
    instances_made,   \* how many SharedContexts the factories have made
    gc_pc,            \* per caller of GetOrCreateSharedContext: where it is
    shared_context_id,\* per caller: its argument
    made,             \* per caller: what its factory call returned
    returned,         \* per caller: the SharedContext it got, NULL before
    \* EnqueueBlockingWork
    task_holder,      \* per closure: who holds it
    eb_pc,            \* per EnqueueBlockingWork call: where it is
    eb_result,        \* per EnqueueBlockingWork call: the bool it returned
    queue_answer,     \* per closure: "none", "accepted" or "rejected" by the queue
    \* HostContext construction and destruction
    next_host_context_index, \* the process-global counter
    all_host_contexts_,      \* the process-global table: NULL or a HostContext
    hc_pc,            \* per HostContext: where its constructor or destructor is
    instance_ptr_,    \* per HostContext: its instance index, -1 before construction
    ready_chain_,     \* per HostContext: "none", "available" or "freed"
    allocator_,       \* per HostContext: "none", "alive" or "destroyed"
    work_queue_,      \* per HostContext: "none", "alive" or "destroyed"
    shared_context_mgr_, \* per HostContext: "none", "alive" or "destroyed"
    dtor_log,         \* per HostContext: what its destruction has done, in order
    stray_writes,     \* the out-of-range indices all_host_contexts_ was written at
    \* AsyncValue: AndThen and the set calls
    state_,           \* per AsyncValue: "Unresolved", "Concrete" or "Error"
    waiters_,         \* per AsyncValue: the waiter stack, newest first
    payload_,         \* per AsyncValue: the set call that constructed the payload, 0 if none
    aw_pc,            \* per AndThen call: where it is
    aw_value,         \* per AndThen call: the AsyncValue it is made on
    aw_seen,          \* per AndThen call: the state and the stack it loaded
    aw_loads,         \* per AndThen call: how often it loaded the word
    aw_runs,          \* per waiter: how often it ran
    aw_thread,        \* per waiter: the thread that ran it
    aw_state_at_run,  \* per waiter: the state of its value when it ran
    set_pc,           \* per set call: where it is
    set_value,        \* per set call: the AsyncValue it is made on
    set_state,        \* per set call: the state it sets
    notify,           \* per set call: the waiters it detached and has yet to run
    transitions,      \* per AsyncValue: how often its state left Unresolved
    rewritten         \* per AsyncValue: its state changed after it was resolved

pfVars == <<pf_pc, ctx, n_, block_size_, pending_blocks_, frames, work_queue,
            compute_calls, on_done_calls, ctx_misuse>>

avVars == <<av_state, av_waiters, av_flush>>

rwrVars == <<rwr_pc, values, scan_i, unavailable_values, reg_i, data, counter, running,
             callee_calls, callee_threads, and_then_calls, available_at_call, data_misuse>>

cancelVars == <<cancel_value_, err_state, err_refs, err_msg, cancel_pc, restart_pc, value,
                epoch, cas_epoch, cas_won, exchange_epoch>>

sharedVars == <<once_flag, instance, factory_calls, instances_made, gc_pc,
                shared_context_id, made, returned>>

blockingVars == <<task_holder, eb_pc, eb_result, queue_answer>>

lifeVars == <<next_host_context_index, all_host_contexts_, hc_pc, instance_ptr_,
              ready_chain_, allocator_, work_queue_, shared_context_mgr_, dtor_log,
              stray_writes>>

setVars == <<state_, waiters_, payload_, aw_pc, aw_value, aw_seen, aw_loads, aw_runs, aw_thread,
             aw_state_at_run, set_pc, set_value, set_state, notify, transitions, rewritten>>

vars == <<ndebug, pfVars, avVars, rwrVars, cancelVars, sharedVars, blockingVars, lifeVars,
          setVars>>

\* What the actions of one component leave unchanged.
notPF == <<ndebug, avVars, rwrVars, cancelVars, sharedVars, blockingVars, lifeVars, setVars>>
notRWR == <<ndebug, pfVars, cancelVars, sharedVars, blockingVars, lifeVars, setVars>>
notCancel == <<ndebug, pfVars, avVars, rwrVars, sharedVars, blockingVars, lifeVars, setVars>>
notShared == <<ndebug, pfVars, avVars, rwrVars, cancelVars, blockingVars, lifeVars, setVars>>
notBlocking == <<ndebug, pfVars, avVars, rwrVars, cancelVars, sharedVars, lifeVars, setVars>>
notLife == <<ndebug, pfVars, avVars, rwrVars, cancelVars, sharedVars, blockingVars, setVars>>
notSet == <<ndebug, pfVars, avVars, rwrVars, cancelVars, sharedVars, blockingVars, lifeVars>>

\* ---------------------------------------------------------------- ParallelFor

Frame(start_block, end_block, pc, thread) ==
    [start_block |-> start_block, end_block |-> end_block, pc |-> pc, thread |-> thread]

\* The frame f ends: EvalBlocks returns, and with it ParallelFor when the
\* caller's thread ran it.
PopFrame(f) ==
    /\ frames' = frames \ {f}
    /\ pf_pc' = IF f.thread = "caller" THEN "returned" ELSE pf_pc

\* Whether a use of the context by a thread is a use after delete.
Misuse == ctx_misuse \/ ctx # "live"

InitPF ==
    /\ pf_pc = "idle"
    /\ ctx = "none"
    /\ n_ = 0
    /\ block_size_ = 0
    /\ pending_blocks_ = 0
    /\ frames = {}
    /\ work_queue = {}
    /\ compute_calls = EmptyBag
    /\ on_done_calls = 0
    /\ ctx_misuse = FALSE

\* HostContext::ParallelFor up to the call of compute (synchronous path) or
\* the entry of EvalBlocks (asynchronous path).
ParallelFor(n, min_block_size, P) ==
    /\ pf_pc = "idle"
    /\ LET block_size == BlockSize(n, min_block_size, P) IN
       /\ n <= block_size \/ DivUp(n, block_size) <= MaxBlocks
       /\ n_' = n
       /\ block_size_' = block_size
       /\ IF n <= block_size
          THEN /\ pf_pc' = "sync_compute"
               /\ compute_calls' = compute_calls (+) SetToBag({<<0, n>>})
               /\ UNCHANGED <<ctx, pending_blocks_, frames>>
          ELSE /\ pf_pc' = "eval"
               /\ ctx' = "live"
               /\ pending_blocks_' = DivUp(n, block_size)
               /\ frames' = {Frame(0, IntToSize(SizeToInt(DivUp(n, block_size))),
                                   "loop", "caller")}
               /\ UNCHANGED compute_calls
    /\ UNCHANGED <<work_queue, on_done_calls, ctx_misuse>>
    /\ UNCHANGED notPF

\* compute(0, n) returns on the synchronous path.
SyncComputeReturn ==
    /\ pf_pc = "sync_compute"
    /\ pf_pc' = "sync_on_done"
    /\ UNCHANGED <<ctx, n_, block_size_, pending_blocks_, frames, work_queue,
                   compute_calls, on_done_calls, ctx_misuse>>
    /\ UNCHANGED notPF

\* on_done() and the return of the synchronous path.
SyncOnDone ==
    /\ pf_pc = "sync_on_done"
    /\ on_done_calls' = on_done_calls + 1
    /\ pf_pc' = "returned"
    /\ UNCHANGED <<ctx, n_, block_size_, pending_blocks_, frames, work_queue,
                   compute_calls, ctx_misuse>>
    /\ UNCHANGED notPF

\* One iteration of the while loop of EvalBlocks.
EvalSplit(f) ==
    /\ pf_pc # "aborted"
    /\ f.pc = "loop"
    /\ Sub(f.end_block, f.start_block) > 1
    /\ LET mid_block == Add(f.start_block, Sub(f.end_block, f.start_block) \div 2) IN
       /\ work_queue' = work_queue \cup {[start_block |-> mid_block, end_block |-> f.end_block]}
       /\ frames' = (frames \ {f}) \cup {[f EXCEPT !.end_block = mid_block]}
    /\ ctx_misuse' = Misuse
    /\ UNCHANGED <<pf_pc, ctx, n_, block_size_, pending_blocks_, compute_calls, on_done_calls>>
    /\ UNCHANGED notPF

\* The end of the loop, the assert, and the call of compute for one block.
EvalCompute(f) ==
    /\ pf_pc # "aborted"
    /\ f.pc = "loop"
    /\ ~(Sub(f.end_block, f.start_block) > 1)
    /\ IF ~ndebug /\ Sub(f.end_block, f.start_block) # 1
       THEN /\ pf_pc' = "aborted"
            /\ UNCHANGED <<frames, compute_calls, ctx_misuse>>
       ELSE /\ compute_calls' = compute_calls (+)
                  SetToBag({<<Mul(f.start_block, block_size_),
                              Min(n_, Mul(f.end_block, block_size_))>>})
            /\ frames' = (frames \ {f}) \cup {[f EXCEPT !.pc = "computing"]}
            /\ ctx_misuse' = Misuse
            /\ UNCHANGED pf_pc
    /\ UNCHANGED <<ctx, n_, block_size_, pending_blocks_, work_queue, on_done_calls>>
    /\ UNCHANGED notPF

\* compute returns in EvalBlocks.
ComputeReturn(f) ==
    /\ pf_pc # "aborted"
    /\ f.pc = "computing"
    /\ frames' = (frames \ {f}) \cup {[f EXCEPT !.pc = "fetch_sub"]}
    /\ UNCHANGED <<pf_pc, ctx, n_, block_size_, pending_blocks_, work_queue,
                   compute_calls, on_done_calls, ctx_misuse>>
    /\ UNCHANGED notPF

\* pending_blocks_.fetch_sub(1) == 1
EvalFetchSub(f) ==
    /\ pf_pc # "aborted"
    /\ f.pc = "fetch_sub"
    /\ pending_blocks_' = Sub(pending_blocks_, 1)
    /\ ctx_misuse' = Misuse
    /\ IF pending_blocks_ = 1
       THEN /\ frames' = (frames \ {f}) \cup {[f EXCEPT !.pc = "delete"]}
            /\ UNCHANGED pf_pc
       ELSE PopFrame(f)
    /\ UNCHANGED <<ctx, n_, block_size_, work_queue, compute_calls, on_done_calls>>
    /\ UNCHANGED notPF

\* delete this: ~ParallelForExecutionContext calls on_done_.
EvalDelete(f) ==
    /\ pf_pc # "aborted"
    /\ f.pc = "delete"
    /\ on_done_calls' = on_done_calls + 1
    /\ ctx' = "freed"
    /\ ctx_misuse' = Misuse
    /\ PopFrame(f)
    /\ UNCHANGED <<n_, block_size_, pending_blocks_, work_queue, compute_calls>>
    /\ UNCHANGED notPF

\* A worker of the work queue takes a task: EvalBlocks(mid_block, end_block).
RunTask(t) ==
    /\ pf_pc # "aborted"
    /\ t \in work_queue
    /\ work_queue' = work_queue \ {t}
    /\ frames' = frames \cup {Frame(t.start_block, t.end_block, "loop", "worker")}
    /\ UNCHANGED <<pf_pc, ctx, n_, block_size_, pending_blocks_, compute_calls,
                   on_done_calls, ctx_misuse>>
    /\ UNCHANGED notPF

NextPF ==
    \/ \E n \in 0..SizeMax, min_block_size \in 1..MaxMinBlock, P \in 1..MaxP :
           ParallelFor(n, min_block_size, P)
    \/ SyncComputeReturn
    \/ SyncOnDone
    \/ \E f \in frames : EvalSplit(f)
    \/ \E f \in frames : EvalCompute(f)
    \/ \E f \in frames : ComputeReturn(f)
    \/ \E f \in frames : EvalFetchSub(f)
    \/ \E f \in frames : EvalDelete(f)
    \/ \E t \in work_queue : RunTask(t)

\* ------------------------------------------------- ParallelFor: properties

\* ParallelFor has returned and every task it enqueued has run to its end.
PFComplete == pf_pc = "returned" /\ frames = {} /\ work_queue = {}

\* x + y - 1 of DivUp does not wrap for the call's n and block size.
DivUpFits == n_ + block_size_ - 1 <= SizeMax

RECURSIVE SumCopies(_, _)
SumCopies(S, bag) ==
    IF S = {} THEN 0
    ELSE LET r == CHOOSE x \in S : TRUE IN CopiesIn(r, bag) + SumCopies(S \ {r}, bag)

\* The number of compute calls whose range [lo, hi) holds index i.
Cover(i) == SumCopies({r \in BagToSet(compute_calls) : r[1] <= i /\ i < r[2]}, compute_calls)

\* The ranges passed to compute so far overlap nowhere and stay inside [0, n);
\* once the call is complete they cover [0, n).
Partition ==
    /\ \A r \in BagToSet(compute_calls) : r[1] <= r[2] /\ r[2] <= n_
    /\ \A i \in 0..(n_ - 1) : Cover(i) <= 1 /\ (PFComplete => Cover(i) = 1)

\* C1: for every ParallelFor call with n >= 1, min_block >= 1 and P >= 1, under
\* every interleaving of the enqueued tasks, the ranges passed to compute form
\* a partition of [0, n).
C1_ComputePartition == (pf_pc # "idle" /\ n_ >= 1) => Partition

\* The same for the calls in which DivUp does not wrap.
PartitionWhenDivUpFits == (pf_pc # "idle" /\ n_ >= 1 /\ DivUpFits) => Partition

\* No compute call is in progress and none is still to come.
ComputeOver ==
    /\ pf_pc \notin {"sync_compute"}
    /\ work_queue = {}
    /\ \A f \in frames : f.pc \notin {"loop", "computing"}

\* C2: on_done is invoked exactly once per ParallelFor call, and only after
\* every compute call of it has returned.
C2_OnDoneOnceAfterCompute ==
    /\ on_done_calls <= 1
    /\ on_done_calls = 1 => ComputeOver
    /\ PFComplete => on_done_calls = 1

\* The same for the calls in which DivUp does not wrap.
OnDoneWhenDivUpFits == DivUpFits => C2_OnDoneOnceAfterCompute

\* The caller's EvalBlocks has left its while loop (or was never entered).
CallerPastLoop == ~\E f \in frames : f.thread = "caller" /\ f.pc = "loop"

\* EnqueueWork was called: the task is in the queue, runs on a worker or has
\* ended there after its compute call.
Enqueued ==
    \/ work_queue # {}
    \/ \E f \in frames : f.thread = "worker"
    \/ BagCardinality(compute_calls) >= 2

\* block_size of ParallelFor is max(min_block, n / (4 * P)).
BlockSizeIsB ==
    \A n \in 0..SizeMax, min_block_size \in 1..MaxMinBlock, P \in 1..MaxP :
        BlockSize(n, min_block_size, P) = Max(min_block_size, n \div (4 * P))

SyncPath ==
    (pf_pc # "idle" /\ n_ <= block_size_) =>
        /\ ctx = "none" /\ work_queue = {} /\ frames = {}
        /\ compute_calls = SetToBag({<<0, n_>>})
        /\ on_done_calls = (IF pf_pc = "returned" THEN 1 ELSE 0)

AsyncPathEnqueues ==
    (pf_pc \notin {"idle", "aborted"} /\ n_ > block_size_ /\ CallerPastLoop) => Enqueued

\* C16: with B = max(min_block, n / (4 * P)), whenever n <= B ParallelFor calls
\* compute(0, n) once and then on_done() once on the calling thread before it
\* returns, enqueues no task and allocates no context; whenever n > B it
\* enqueues at least one task.
C16_SyncIffSmall == BlockSizeIsB /\ SyncPath /\ AsyncPathEnqueues

\* The same for the calls in which DivUp does not wrap.
SyncIffSmallWhenDivUpFits == DivUpFits => C16_SyncIffSmall

\* ceil(n / B), computed without a width.
CeilBlocks == (n_ + block_size_ - 1) \div block_size_

\* The blocks whose compute call has returned and been counted by fetch_sub.
Counted ==
    BagCardinality(compute_calls)
        - Cardinality({f \in frames : f.pc \in {"computing", "fetch_sub"}})

\* The threads that have observed the final decrement.
FinalDecrements ==
    Cardinality({f \in frames : f.pc = "delete"}) + (IF ctx = "freed" THEN 1 ELSE 0)

PendingCounts ==
    ctx # "none" =>
        /\ pending_blocks_ = CeilBlocks - Counted
        /\ pending_blocks_ <= CeilBlocks
        /\ FinalDecrements <= 1
        /\ PFComplete => FinalDecrements = 1

\* C17: on the asynchronous path the pending counter equals ceil(n/B) minus
\* the blocks whose compute call has returned and been counted, it never
\* underflows, and exactly one thread observes the final decrement.
C17_PendingCounts == pf_pc # "aborted" => PendingCounts

\* The same for the calls in which DivUp does not wrap.
PendingCountsWhenDivUpFits == DivUpFits => C17_PendingCounts

\* The range compute gets for block b.
BlockRange(b) == <<b * block_size_, Min(n_, (b + 1) * block_size_)>>

\* How many hold block b: the EvalBlocks invocations still in their loop and
\* the enqueued tasks whose range has b, and the compute calls made for b.
Holders(b) ==
    Cardinality({f \in frames : f.pc = "loop" /\ f.start_block <= b /\ b < f.end_block})
        + Cardinality({t \in work_queue : t.start_block <= b /\ b < t.end_block})
        + CopiesIn(BlockRange(b), compute_calls)

OneBlockPerEval ==
    ctx # "none" =>
        /\ \A f \in frames :
               /\ f.thread = "caller" => f.start_block = 0
               /\ f.pc # "loop" =>
                      /\ f.end_block - f.start_block = 1
                      /\ BagIn(BlockRange(f.start_block), compute_calls)
        /\ \A r \in BagToSet(compute_calls) : r[1] < r[2] /\ r[2] - r[1] <= block_size_
        /\ \A b \in 0..(CeilBlocks - 1) : Holders(b) = 1

\* C18: each EvalBlocks(lo, hi) executes one block itself, block lo, as
\* compute(lo*B, min(n, (lo+1)*B)), and hands every other block of [lo, hi) to
\* exactly one enqueued task; every compute call of the asynchronous path gets
\* a non-empty range of length at most B; the caller executes block 0.
C18_OneBlockPerEval == pf_pc # "aborted" => OneBlockPerEval

\* The same for the calls in which DivUp does not wrap.
OneBlockPerEvalWhenDivUpFits == DivUpFits => C18_OneBlockPerEval

\* C19: when the work queue runs every enqueued task and compute returns,
\* every ParallelFor call eventually invokes on_done, with no block left
\* undispatched and the pending counter at 0.
C19_EventuallyOnDone ==
    (pf_pc # "idle") ~> (on_done_calls = 1 /\ PFComplete /\ pending_blocks_ = 0)

\* The same for the calls in which DivUp does not wrap.
EventuallyOnDoneWhenDivUpFits ==
    (pf_pc # "idle" /\ DivUpFits) ~> (on_done_calls = 1 /\ PFComplete /\ pending_blocks_ = 0)

ContextFreedOnce ==
    /\ ~ctx_misuse
    /\ ctx = "freed" => pending_blocks_ = 0 /\ on_done_calls = 1
    /\ (PFComplete /\ ctx # "none") => ctx = "freed"

\* C20: the ParallelForExecutionContext is freed exactly once, by the thread
\* that observes the final decrement, and no thread uses it after it has been
\* freed, in every interleaving of the caller and the enqueued tasks.
C20_ContextFreedOnce == pf_pc # "aborted" => ContextFreedOnce

\* The same for the calls in which DivUp does not wrap.
ContextFreedOnceWhenDivUpFits == DivUpFits => C20_ContextFreedOnce

\* ----------------------------------------------------------------- AsyncValue

Values == 1..NumValues

\* The thread that calls RunWhenReady; value v is resolved by thread v.
CallerThread == 0
Threads == {CallerThread} \cup Values

IsAvailable(v) == av_state[v] # "Unresolved"

\* The first step of a waiter: the lambda of the single-value path calls
\* callee, the lambda of the counting path starts with the fetch_sub.
FirstStep(waiter) == IF waiter = "callee_waiter" THEN "callee" ELSE "fetch_sub"

\* AsyncValue::AndThen by thread t: an available value runs the waiter at
\* once on t, an unavailable one pushes it on its waiter stack.
AndThen(t, v, waiter) ==
    IF IsAvailable(v)
    THEN /\ running' = [running EXCEPT ![t] = FirstStep(waiter)]
         /\ UNCHANGED av_waiters
    ELSE /\ av_waiters' = [av_waiters EXCEPT ![v] = <<waiter>> \o @]
         /\ UNCHANGED running

InitAV ==
    /\ av_state = [v \in Values |-> "Unresolved"]
    /\ av_waiters = [v \in Values |-> <<>>]
    /\ av_flush = [v \in Values |-> <<>>]

\* SetStateConcrete / emplace / SetError on an unresolved value: the state
\* changes and the waiter stack is detached in one step.
SetState(v, state) ==
    /\ av_state[v] = "Unresolved"
    /\ av_state' = [av_state EXCEPT ![v] = state]
    /\ av_flush' = [av_flush EXCEPT ![v] = av_waiters[v]]
    /\ av_waiters' = [av_waiters EXCEPT ![v] = <<>>]
    /\ UNCHANGED rwrVars
    /\ UNCHANGED notRWR

\* The resolver of v starts the next detached waiter, newest first.
NotifyWaiter(v) ==
    /\ av_flush[v] # <<>>
    /\ running[v] = "none"
    /\ running' = [running EXCEPT ![v] = FirstStep(Head(av_flush[v]))]
    /\ av_flush' = [av_flush EXCEPT ![v] = Tail(@)]
    /\ UNCHANGED <<av_state, av_waiters>>
    /\ UNCHANGED <<rwr_pc, values, scan_i, unavailable_values, reg_i, data, counter,
                   callee_calls, callee_threads, and_then_calls, available_at_call,
                   data_misuse>>
    /\ UNCHANGED notRWR

\* --------------------------------------------------------------- RunWhenReady

InitRWR ==
    /\ rwr_pc = "idle"
    /\ values = <<>>
    /\ scan_i = 1
    /\ unavailable_values = <<>>
    /\ reg_i = 1
    /\ data = "none"
    /\ counter = 0
    /\ running = [t \in Threads |-> "none"]
    /\ callee_calls = 0
    /\ callee_threads = {}
    /\ and_then_calls = 0
    /\ available_at_call = FALSE
    /\ data_misuse = FALSE

\* callee() by thread t.
CallCallee(t) ==
    /\ callee_calls' = callee_calls + 1
    /\ callee_threads' = callee_threads \cup {t}

\* Whether a use of data by a thread is a use after delete.
DataMisuse == data_misuse \/ data # "live"

\* The call of RunWhenReady(vals, callee).
RunWhenReady(vals) ==
    /\ rwr_pc = "idle"
    /\ rwr_pc' = "scan"
    /\ values' = vals
    /\ available_at_call' = \A i \in 1..Len(vals) : IsAvailable(vals[i])
    /\ UNCHANGED <<scan_i, unavailable_values, reg_i, data, counter, running,
                   callee_calls, callee_threads, and_then_calls, data_misuse>>
    /\ UNCHANGED avVars
    /\ UNCHANGED notRWR

\* ScanValue that takes a value in error state for an unavailable one.
ScanValueConcreteOnly ==
    /\ rwr_pc = "scan"
    /\ scan_i <= Len(values)
    /\ unavailable_values' = IF av_state[values[scan_i]] = "Concrete"
                             THEN unavailable_values
                             ELSE Append(unavailable_values, values[scan_i])
    /\ scan_i' = scan_i + 1
    /\ UNCHANGED <<rwr_pc, values, reg_i, data, counter, running, callee_calls,
                   callee_threads, and_then_calls, available_at_call, data_misuse>>
    /\ UNCHANGED avVars
    /\ UNCHANGED notRWR

\* One iteration of the scan: if (!i->IsAvailable()) push_back(i).
ScanValue ==
    /\ rwr_pc = "scan"
    /\ scan_i <= Len(values)
    /\ unavailable_values' = IF IsAvailable(values[scan_i])
                             THEN unavailable_values
                             ELSE Append(unavailable_values, values[scan_i])
    /\ scan_i' = scan_i + 1
    /\ UNCHANGED <<rwr_pc, values, reg_i, data, counter, running, callee_calls,
                   callee_threads, and_then_calls, available_at_call, data_misuse>>
    /\ UNCHANGED avVars
    /\ UNCHANGED notRWR

\* CallSynchronously that also runs callee at once when a value of the list is
\* already an error (what the comment above the scan announces).
CallSynchronouslyOnError ==
    /\ rwr_pc = "scan"
    /\ scan_i > Len(values)
    /\ \/ unavailable_values = <<>>
       \/ \E i \in 1..Len(values) : av_state[values[i]] = "Error"
    /\ CallCallee(CallerThread)
    /\ rwr_pc' = "returned"
    /\ UNCHANGED <<values, scan_i, unavailable_values, reg_i, data, counter, running,
                   and_then_calls, available_at_call, data_misuse>>
    /\ UNCHANGED avVars
    /\ UNCHANGED notRWR

\* if (unavailable_values.empty()) return callee();
CallSynchronously ==
    /\ rwr_pc = "scan"
    /\ scan_i > Len(values)
    /\ unavailable_values = <<>>
    /\ CallCallee(CallerThread)
    /\ rwr_pc' = "returned"
    /\ UNCHANGED <<values, scan_i, unavailable_values, reg_i, data, counter, running,
                   and_then_calls, available_at_call, data_misuse>>
    /\ UNCHANGED avVars
    /\ UNCHANGED notRWR

\* Exactly one unavailable value: AndThen of the lambda that calls callee.
AndThenSingle ==
    /\ rwr_pc = "scan"
    /\ scan_i > Len(values)
    /\ Len(unavailable_values) = 1
    /\ AndThen(CallerThread, unavailable_values[1], "callee_waiter")
    /\ and_then_calls' = and_then_calls + 1
    /\ rwr_pc' = "and_then"
    /\ UNCHANGED <<values, scan_i, unavailable_values, reg_i, data, counter,
                   callee_calls, callee_threads, available_at_call, data_misuse>>
    /\ UNCHANGED <<av_state, av_flush>>
    /\ UNCHANGED notRWR

\* AllocateData that counts every value of the list, the available ones too.
AllocateDataCountAll ==
    /\ rwr_pc = "scan"
    /\ scan_i > Len(values)
    /\ Len(unavailable_values) > 1
    /\ data' = "live"
    /\ counter' = Len(values)
    /\ rwr_pc' = "register"
    /\ UNCHANGED <<values, scan_i, unavailable_values, reg_i, running, callee_calls,
                   callee_threads, and_then_calls, available_at_call, data_misuse>>
    /\ UNCHANGED avVars
    /\ UNCHANGED notRWR

\* Several unavailable values: new CounterAndCallee{size, callee}.
AllocateData ==
    /\ rwr_pc = "scan"
    /\ scan_i > Len(values)
    /\ Len(unavailable_values) > 1
    /\ data' = "live"
    /\ counter' = Len(unavailable_values)
    /\ rwr_pc' = "register"
    /\ UNCHANGED <<values, scan_i, unavailable_values, reg_i, running, callee_calls,
                   callee_threads, and_then_calls, available_at_call, data_misuse>>
    /\ UNCHANGED avVars
    /\ UNCHANGED notRWR

\* One iteration of the loop that registers the counting lambda.
RegisterWaiter ==
    /\ rwr_pc = "register"
    /\ running[CallerThread] = "none"
    /\ reg_i <= Len(unavailable_values)
    /\ AndThen(CallerThread, unavailable_values[reg_i], "counter_waiter")
    /\ reg_i' = reg_i + 1
    /\ and_then_calls' = and_then_calls + 1
    /\ UNCHANGED <<rwr_pc, values, scan_i, unavailable_values, data, counter,
                   callee_calls, callee_threads, available_at_call, data_misuse>>
    /\ UNCHANGED <<av_state, av_flush>>
    /\ UNCHANGED notRWR

\* RunWhenReady returns after its last AndThen.
ReturnRWR ==
    /\ \/ rwr_pc = "and_then"
       \/ rwr_pc = "register" /\ reg_i > Len(unavailable_values)
    /\ running[CallerThread] = "none"
    /\ rwr_pc' = "returned"
    /\ UNCHANGED <<values, scan_i, unavailable_values, reg_i, data, counter, running,
                   callee_calls, callee_threads, and_then_calls, available_at_call,
                   data_misuse>>
    /\ UNCHANGED avVars
    /\ UNCHANGED notRWR

\* The lambda of the single-value path: callee().
WaiterCallee(t) ==
    /\ running[t] = "callee"
    /\ CallCallee(t)
    /\ running' = [running EXCEPT ![t] = "none"]
    /\ UNCHANGED <<rwr_pc, values, scan_i, unavailable_values, reg_i, data, counter,
                   and_then_calls, available_at_call, data_misuse>>
    /\ UNCHANGED avVars
    /\ UNCHANGED notRWR

\* WaiterFetchSub that tests the value after the decrement, not before.
WaiterSubFetch(t) ==
    /\ running[t] = "fetch_sub"
    /\ counter' = Sub(counter, 1)
    /\ running' = [running EXCEPT ![t] = IF Sub(counter, 1) # 1 THEN "none" ELSE "data_callee"]
    /\ data_misuse' = DataMisuse
    /\ UNCHANGED <<rwr_pc, values, scan_i, unavailable_values, reg_i, data,
                   callee_calls, callee_threads, and_then_calls, available_at_call>>
    /\ UNCHANGED avVars
    /\ UNCHANGED notRWR

\* The counting lambda: if (data->counter.fetch_sub(1) != 1) return;
WaiterFetchSub(t) ==
    /\ running[t] = "fetch_sub"
    /\ counter' = Sub(counter, 1)
    /\ running' = [running EXCEPT ![t] = IF counter # 1 THEN "none" ELSE "data_callee"]
    /\ data_misuse' = DataMisuse
    /\ UNCHANGED <<rwr_pc, values, scan_i, unavailable_values, reg_i, data,
                   callee_calls, callee_threads, and_then_calls, available_at_call>>
    /\ UNCHANGED avVars
    /\ UNCHANGED notRWR

\* The counting lambda: data->callee();
WaiterDataCallee(t) ==
    /\ running[t] = "data_callee"
    /\ CallCallee(t)
    /\ running' = [running EXCEPT ![t] = "delete"]
    /\ data_misuse' = DataMisuse
    /\ UNCHANGED <<rwr_pc, values, scan_i, unavailable_values, reg_i, data, counter,
                   and_then_calls, available_at_call>>
    /\ UNCHANGED avVars
    /\ UNCHANGED notRWR

\* The counting lambda: delete data;
WaiterDelete(t) ==
    /\ running[t] = "delete"
    /\ data' = "freed"
    /\ running' = [running EXCEPT ![t] = "none"]
    /\ data_misuse' = DataMisuse
    /\ UNCHANGED <<rwr_pc, values, scan_i, unavailable_values, reg_i, counter,
                   callee_calls, callee_threads, and_then_calls, available_at_call>>
    /\ UNCHANGED avVars
    /\ UNCHANGED notRWR

\* The lists of values a caller passes, repetitions included. The values are
\* interchangeable, so they are numbered in the order the list first names them.
ValueLists ==
    {vals \in UNION {[1..k -> Values] : k \in 0..MaxValues} :
        \A i \in 1..Len(vals) : \A v \in 1..(vals[i] - 1) : \E j \in 1..(i - 1) : vals[j] = v}

NextRWR ==
    \/ \E v \in Values, state \in {"Concrete", "Error"} : SetState(v, state)
    \/ \E v \in Values : NotifyWaiter(v)
    \/ \E vals \in ValueLists : RunWhenReady(vals)
    \/ ScanValue
    \/ CallSynchronously
    \/ AndThenSingle
    \/ AllocateData
    \/ RegisterWaiter
    \/ ReturnRWR
    \/ \E t \in Threads : WaiterCallee(t)
    \/ \E t \in Threads : WaiterFetchSub(t)
    \/ \E t \in Threads : WaiterDataCallee(t)
    \/ \E t \in Threads : WaiterDelete(t)

\* ------------------------------------------------- RunWhenReady: properties

AllAvailable == \A i \in 1..Len(values) : IsAvailable(values[i])

\* RunWhenReady has returned, every value of its list is resolved and every
\* resolver has run the waiters it detached.
RWRQuiet ==
    /\ rwr_pc = "returned"
    /\ AllAvailable
    /\ \A t \in Threads : running[t] = "none"
    /\ \A v \in Values : av_flush[v] = <<>>

C3_WitnessResolver ==
    /\ Len(unavailable_values) >= 2
    /\ callee_calls = 1
    /\ CallerThread \notin callee_threads
    /\ RWRQuiet

C5_AllAvailableRunsInline ==
    available_at_call =>
        /\ and_then_calls = 0
        /\ data = "none"
        /\ \A v \in Values : av_waiters[v] = <<>>
        /\ callee_threads \subseteq {CallerThread}
        /\ \A t \in Threads : running[t] = "none"
        /\ rwr_pc = "returned" <=> callee_calls = 1

\* A list of three resolved values, one of them an error: callee has run.
C5_Witness ==
    /\ available_at_call
    /\ Len(values) = 3
    /\ \E i \in 1..Len(values) : av_state[values[i]] = "Error"
    /\ rwr_pc = "returned"
    /\ callee_calls = 1

\* The counting lambdas that are registered and have not begun to run.
WaitersToRun ==
    \E v \in Values : av_waiters[v] # <<>> \/ av_flush[v] # <<>>

\* The threads that have observed the counter at 1 and are before the end of
\* delete data.
LastDecrementers == {t \in Threads : running[t] \in {"data_callee", "delete"}}

\* C21: with two or more pending values the CounterAndCallee is freed exactly
\* once, by the continuation that observes the counter at 1, and it is not
\* accessed after that, neither by another continuation nor by the loop of
\* RunWhenReady that registers them, also when values resolve during the loop.
C21_DataFreedOnce ==
    /\ ~data_misuse
    /\ data # "none" <=> (rwr_pc \in {"register", "returned"} /\ Len(unavailable_values) >= 2)
    /\ Cardinality(LastDecrementers) <= 1
    /\ LastDecrementers # {} => data = "live" /\ counter = 0
    /\ data = "freed" =>
           /\ counter = 0
           /\ callee_calls = 1
           /\ reg_i > Len(unavailable_values)
           /\ ~WaitersToRun
           /\ \A t \in Threads : running[t] = "none"
    /\ (RWRQuiet /\ data # "none") => data = "freed"

\* Two values were pending at the scan and both resolved during the loop: the
\* last AndThen ran its continuation on the calling thread, which observed
\* the counter at 1 and freed the record before the loop ended.
C21_Witness ==
    /\ rwr_pc = "register"
    /\ Len(unavailable_values) = 2
    /\ data = "freed"
    /\ callee_threads = {CallerThread}

\* ---------------------------------------------------- CancelExecution / Restart

NULL == 0
CancelCalls == 1..MaxCancels
RestartCalls == 1..MaxRestarts
\* The message call c of CancelExecution passes.
Message(c) == c

\* Call c of CancelExecution constructs ErrorAsyncValue c: its local error_value.
error_value(c) == c

InitCancel ==
    /\ cancel_value_ = NULL
    /\ err_state = [e \in CancelCalls |-> "none"]
    /\ err_refs = [e \in CancelCalls |-> 0]
    /\ err_msg = [e \in CancelCalls |-> NULL]
    /\ cancel_pc = [c \in CancelCalls |-> "idle"]
    /\ restart_pc = [r \in RestartCalls |-> "idle"]
    /\ value = [r \in RestartCalls |-> NULL]
    /\ epoch = 0
    /\ cas_epoch = [c \in CancelCalls |-> -1]
    /\ cas_won = [c \in CancelCalls |-> FALSE]
    /\ exchange_epoch = [r \in RestartCalls |-> -1]

\* AsyncValue::DropRef: the last reference destroys the value.
DropRef(e) ==
    /\ err_refs' = [err_refs EXCEPT ![e] = @ - 1]
    /\ err_state' = [err_state EXCEPT ![e] = IF err_refs[e] = 1 THEN "destroyed" ELSE @]

\* MakeErrorAsyncValueRef(msg).release(): a new value in error state that
\* holds one reference.
MakeErrorAsyncValueRef(c) ==
    /\ cancel_pc[c] = "idle"
    /\ err_state' = [err_state EXCEPT ![error_value(c)] = "Error"]
    /\ err_refs' = [err_refs EXCEPT ![error_value(c)] = 1]
    /\ err_msg' = [err_msg EXCEPT ![error_value(c)] = Message(c)]
    /\ cancel_pc' = [cancel_pc EXCEPT ![c] = "compare_exchange"]
    /\ UNCHANGED <<cancel_value_, restart_pc, value, epoch, cas_epoch, cas_won, exchange_epoch>>
    /\ UNCHANGED notCancel

\* CancelCompareExchange with a plain store in place of the compare-exchange:
\* the last writer wins.
CancelStore(c) ==
    /\ cancel_pc[c] = "compare_exchange"
    /\ cas_epoch' = [cas_epoch EXCEPT ![c] = epoch]
    /\ cancel_value_' = error_value(c)
    /\ cas_won' = [cas_won EXCEPT ![c] = TRUE]
    /\ cancel_pc' = [cancel_pc EXCEPT ![c] = "done"]
    /\ UNCHANGED <<err_state, err_refs, err_msg, restart_pc, value, epoch, exchange_epoch>>
    /\ UNCHANGED notCancel

\* cancel_value_.compare_exchange_strong(expected_value = nullptr, error_value)
CancelCompareExchange(c) ==
    /\ cancel_pc[c] = "compare_exchange"
    /\ cas_epoch' = [cas_epoch EXCEPT ![c] = epoch]
    /\ IF cancel_value_ = NULL
       THEN /\ cancel_value_' = error_value(c)
            /\ cas_won' = [cas_won EXCEPT ![c] = TRUE]
            /\ cancel_pc' = [cancel_pc EXCEPT ![c] = "done"]
       ELSE /\ cancel_pc' = [cancel_pc EXCEPT ![c] = "drop_ref"]
            /\ UNCHANGED <<cancel_value_, cas_won>>
    /\ UNCHANGED <<err_state, err_refs, err_msg, restart_pc, value, epoch, exchange_epoch>>
    /\ UNCHANGED notCancel

\* error_value->DropRef() after a failed compare_exchange.
CancelDropRef(c) ==
    /\ cancel_pc[c] = "drop_ref"
    /\ DropRef(error_value(c))
    /\ cancel_pc' = [cancel_pc EXCEPT ![c] = "done"]
    /\ UNCHANGED <<cancel_value_, err_msg, restart_pc, value, epoch, cas_epoch, cas_won,
                   exchange_epoch>>
    /\ UNCHANGED notCancel

\* RestartExchange with a load in place of the exchange: the slot keeps the
\* value whose reference Restart then drops.
RestartLoad(r) ==
    /\ restart_pc[r] = "idle"
    /\ value' = [value EXCEPT ![r] = cancel_value_]
    /\ epoch' = epoch + 1
    /\ exchange_epoch' = [exchange_epoch EXCEPT ![r] = epoch + 1]
    /\ restart_pc' = [restart_pc EXCEPT ![r] = "drop_ref"]
    /\ UNCHANGED <<cancel_value_, err_state, err_refs, err_msg, cancel_pc, cas_epoch, cas_won>>
    /\ UNCHANGED notCancel

\* auto value = cancel_value_.exchange(nullptr)
RestartExchange(r) ==
    /\ restart_pc[r] = "idle"
    /\ value' = [value EXCEPT ![r] = cancel_value_]
    /\ cancel_value_' = NULL
    /\ epoch' = epoch + 1
    /\ exchange_epoch' = [exchange_epoch EXCEPT ![r] = epoch + 1]
    /\ restart_pc' = [restart_pc EXCEPT ![r] = "drop_ref"]
    /\ UNCHANGED <<err_state, err_refs, err_msg, cancel_pc, cas_epoch, cas_won>>
    /\ UNCHANGED notCancel

\* if (value) value->DropRef();
RestartDropRef(r) ==
    /\ restart_pc[r] = "drop_ref"
    /\ IF value[r] # NULL THEN DropRef(value[r]) ELSE UNCHANGED <<err_refs, err_state>>
    /\ restart_pc' = [restart_pc EXCEPT ![r] = "done"]
    /\ UNCHANGED <<cancel_value_, err_msg, cancel_pc, value, epoch, cas_epoch, cas_won,
                   exchange_epoch>>
    /\ UNCHANGED notCancel

NextCancel ==
    \/ \E c \in CancelCalls : MakeErrorAsyncValueRef(c)
    \/ \E c \in CancelCalls : CancelCompareExchange(c)
    \/ \E c \in CancelCalls : CancelDropRef(c)
    \/ \E r \in RestartCalls : RestartExchange(r)
    \/ \E r \in RestartCalls : RestartDropRef(r)

\* ------------------------------------------- CancelExecution / Restart: properties

\* The CancelExecution calls whose compare_exchange ran in epoch e, that is
\* after e exchanges of Restart and before the next one.
CasIn(e) == {c \in CancelCalls : cas_epoch[c] = e}

\* C6: cancellation is first-writer-wins. Of the CancelExecution calls between
\* two restarts exactly one installs its error value, which stays in
\* cancel_value_ until Restart; every other call's error value is dropped to
\* reference count 0; cancel_value_ is null or a live value in error state.
C6_FirstWriterWins ==
    /\ cancel_value_ # NULL =>
           err_state[cancel_value_] = "Error" /\ err_refs[cancel_value_] >= 1
    /\ \A e \in 0..epoch :
           CasIn(e) # {} => Cardinality({c \in CasIn(e) : cas_won[c]}) = 1
    /\ \A c \in CasIn(epoch) :
           cas_won[c] => cancel_value_ = error_value(c) /\ err_msg[cancel_value_] = Message(c)
    /\ \A c \in CancelCalls :
           cancel_pc[c] = "done" /\ ~cas_won[c] =>
               err_refs[error_value(c)] = 0 /\ err_state[error_value(c)] = "destroyed"

\* Two calls raced in one epoch: one is installed, the other's value is gone.
C6_Witness ==
    \E c, d \in CancelCalls :
        /\ c # d /\ cas_epoch[c] = cas_epoch[d] /\ cas_epoch[c] = epoch
        /\ cancel_pc[c] = "done" /\ cancel_pc[d] = "done"
        /\ cas_won[c] /\ ~cas_won[d]
        /\ cancel_value_ = error_value(c) /\ err_refs[error_value(d)] = 0

\* The references a value holds: one from its construction, less the one its
\* own call dropped and less one per Restart that removed and dropped it.
RefsOwed(e) ==
    (IF err_state[e] = "none" THEN 0 ELSE 1)
    - (IF cancel_pc[e] = "done" /\ ~cas_won[e] THEN 1 ELSE 0)
    - Cardinality({r \in RestartCalls : restart_pc[r] = "done" /\ value[r] = e})

\* C7: Restart clears the cancel state. Once its exchange has run and no
\* CancelExecution has run its compare_exchange since, cancel_value_ is null;
\* Restart drops exactly one reference of the value it removed and nothing
\* when it removed none; a CancelExecution whose compare_exchange is the only
\* one after a Restart installs its own value.
C7_RestartClears ==
    /\ \A r \in RestartCalls :
           exchange_epoch[r] = epoch /\ CasIn(epoch) = {} => cancel_value_ = NULL
    /\ \A e \in CancelCalls : err_refs[e] = RefsOwed(e)
    /\ \A r \in RestartCalls :
           restart_pc[r] = "done" /\ value[r] # NULL => err_refs[value[r]] = 0
    /\ \A c \in CancelCalls :
           cas_epoch[c] >= 1 /\ CasIn(cas_epoch[c]) = {c} =>
               cas_won[c] /\ (cas_epoch[c] = epoch => cancel_value_ = error_value(c))

\* A Restart removed and dropped an installed value, another Restart found
\* nothing to drop, and a later CancelExecution installed its own value.
C7_Witness ==
    \E r, q \in RestartCalls, c \in CancelCalls :
        /\ restart_pc[r] = "done" /\ value[r] # NULL /\ err_refs[value[r]] = 0
        /\ restart_pc[q] = "done" /\ value[q] = NULL
        /\ cas_epoch[c] >= 1 /\ cas_won[c] /\ cancel_value_ = error_value(c)

\* ------------------------------------------------------- SharedContextManager

SharedCallers == 1..MaxSharedCallers
SharedIds == 0..MaxSharedId

InitShared ==
    /\ once_flag = [id \in SharedIds |-> "init"]
    /\ instance = [id \in SharedIds |-> NULL]
    /\ factory_calls = [id \in SharedIds |-> 0]
    /\ instances_made = 0
    /\ gc_pc = [t \in SharedCallers |-> "idle"]
    /\ shared_context_id = [t \in SharedCallers |-> 0]
    /\ made = [t \in SharedCallers |-> NULL]
    /\ returned = [t \in SharedCallers |-> NULL]

\* An assert of the call_once lambda has failed: the process is gone.
SharedAborted == \E t \in SharedCallers : gc_pc[t] = "aborted"

\* Thread t calls GetOrCreateSharedContext(id, factory).
GetOrCreateSharedContext(t, id) ==
    /\ ~SharedAborted
    /\ gc_pc[t] = "idle"
    /\ shared_context_id' = [shared_context_id EXCEPT ![t] = id]
    /\ gc_pc' = [gc_pc EXCEPT ![t] = "call_once"]
    /\ UNCHANGED <<once_flag, instance, factory_calls, instances_made, made, returned>>
    /\ UNCHANGED notShared

\* CallOnceEnter without the one-shot guard: every thread that finds the
\* flag not yet "done" runs the initializer.
CallOnceUnguarded(t) ==
    /\ ~SharedAborted
    /\ gc_pc[t] = "call_once"
    /\ once_flag[shared_context_id[t]] # "done"
    /\ once_flag' = [once_flag EXCEPT ![shared_context_id[t]] = "running"]
    /\ gc_pc' = [gc_pc EXCEPT ![t] = "factory"]
    /\ UNCHANGED <<instance, factory_calls, instances_made, shared_context_id, made, returned>>
    /\ UNCHANGED notShared

\* std::call_once(item.second, ...): the first thread at a fresh flag runs the
\* initializer; while it runs, every other thread waits here.
CallOnceEnter(t) ==
    /\ ~SharedAborted
    /\ gc_pc[t] = "call_once"
    /\ once_flag[shared_context_id[t]] = "init"
    /\ once_flag' = [once_flag EXCEPT ![shared_context_id[t]] = "running"]
    /\ gc_pc' = [gc_pc EXCEPT ![t] = "factory"]
    /\ UNCHANGED <<instance, factory_calls, instances_made, shared_context_id, made, returned>>
    /\ UNCHANGED notShared

\* RunFactory by an initializer that marks the flag done as soon as factory
\* has returned, before the result is stored.
RunFactoryFlagEarly(t) ==
    /\ ~SharedAborted
    /\ gc_pc[t] = "factory"
    /\ factory_calls' = [factory_calls EXCEPT ![shared_context_id[t]] = @ + 1]
    /\ instances_made' = instances_made + 1
    /\ made' = [made EXCEPT ![t] = instances_made + 1]
    /\ once_flag' = [once_flag EXCEPT ![shared_context_id[t]] = "done"]
    /\ gc_pc' = [gc_pc EXCEPT ![t] = "store"]
    /\ UNCHANGED <<instance, shared_context_id, returned>>
    /\ UNCHANGED notShared

\* assert(!item.first); factory(host_) makes a new SharedContext.
RunFactory(t) ==
    /\ ~SharedAborted
    /\ gc_pc[t] = "factory"
    /\ IF ~ndebug /\ instance[shared_context_id[t]] # NULL
       THEN /\ gc_pc' = [gc_pc EXCEPT ![t] = "aborted"]
            /\ UNCHANGED <<factory_calls, instances_made, made>>
       ELSE /\ factory_calls' = [factory_calls EXCEPT ![shared_context_id[t]] = @ + 1]
            /\ instances_made' = instances_made + 1
            /\ made' = [made EXCEPT ![t] = instances_made + 1]
            /\ gc_pc' = [gc_pc EXCEPT ![t] = "store"]
    /\ UNCHANGED <<once_flag, instance, shared_context_id, returned>>
    /\ UNCHANGED notShared

\* item.first = <what factory returned>
StoreInstance(t) ==
    /\ ~SharedAborted
    /\ gc_pc[t] = "store"
    /\ instance' = [instance EXCEPT ![shared_context_id[t]] = made[t]]
    /\ gc_pc' = [gc_pc EXCEPT ![t] = "call_once_return"]
    /\ UNCHANGED <<once_flag, factory_calls, instances_made, shared_context_id, made, returned>>
    /\ UNCHANGED notShared

\* call_once returns in the thread that ran the initializer: the flag is done.
CallOnceReturn(t) ==
    /\ ~SharedAborted
    /\ gc_pc[t] = "call_once_return"
    /\ once_flag' = [once_flag EXCEPT ![shared_context_id[t]] = "done"]
    /\ gc_pc' = [gc_pc EXCEPT ![t] = "return"]
    /\ UNCHANGED <<instance, factory_calls, instances_made, shared_context_id, made, returned>>
    /\ UNCHANGED notShared

\* call_once returns in a thread that found the flag done.
CallOncePass(t) ==
    /\ ~SharedAborted
    /\ gc_pc[t] = "call_once"
    /\ once_flag[shared_context_id[t]] = "done"
    /\ gc_pc' = [gc_pc EXCEPT ![t] = "return"]
    /\ UNCHANGED <<once_flag, instance, factory_calls, instances_made, shared_context_id,
                   made, returned>>
    /\ UNCHANGED notShared

\* return *item.first;
ReturnInstance(t) ==
    /\ ~SharedAborted
    /\ gc_pc[t] = "return"
    /\ returned' = [returned EXCEPT ![t] = instance[shared_context_id[t]]]
    /\ gc_pc' = [gc_pc EXCEPT ![t] = "done"]
    /\ UNCHANGED <<once_flag, instance, factory_calls, instances_made, shared_context_id, made>>
    /\ UNCHANGED notShared

NextShared ==
    \/ \E t \in SharedCallers, id \in SharedIds : GetOrCreateSharedContext(t, id)
    \/ \E t \in SharedCallers : CallOnceEnter(t)
    \/ \E t \in SharedCallers : RunFactory(t)
    \/ \E t \in SharedCallers : StoreInstance(t)
    \/ \E t \in SharedCallers : CallOnceReturn(t)
    \/ \E t \in SharedCallers : CallOncePass(t)
    \/ \E t \in SharedCallers : ReturnInstance(t)

\* ------------------------------------------ SharedContextManager: properties

\* C8: for any number of threads calling GetOrCreateSharedContext with the
\* same id, factory is invoked at most once for that id and every caller gets
\* the same instance; a different id uses a slot of its own.
C8_FactoryOncePerId ==
    /\ \A id \in SharedIds : factory_calls[id] <= 1
    /\ \A t, u \in SharedCallers :
           gc_pc[t] = "done" /\ gc_pc[u] = "done" =>
               (returned[t] = returned[u] <=> shared_context_id[t] = shared_context_id[u])

\* Two threads got the same instance for one id, a third another for another id.
C8_Witness ==
    \E t, u, w \in SharedCallers :
        /\ t # u /\ gc_pc[t] = "done" /\ gc_pc[u] = "done" /\ gc_pc[w] = "done"
        /\ shared_context_id[t] = shared_context_id[u]
        /\ shared_context_id[w] # shared_context_id[t]
        /\ returned[t] = returned[u] /\ returned[w] # returned[t]
        /\ factory_calls[shared_context_id[t]] = 1

\* C9: no call of GetOrCreateSharedContext returns before the factory call
\* for its id has returned and its result is stored; a caller that lost the
\* guard reads the stored, non-empty instance, and the instance of an id does
\* not change once a caller has it.
C9_ReturnsStoredInstance ==
    \A t \in SharedCallers :
        /\ gc_pc[t] \in {"return", "done"} =>
               /\ once_flag[shared_context_id[t]] = "done"
               /\ factory_calls[shared_context_id[t]] >= 1
               /\ instance[shared_context_id[t]] # NULL
        /\ gc_pc[t] = "done" => returned[t] = instance[shared_context_id[t]]

\* A thread that did not run the initializer has returned the instance.
C9_Witness ==
    \E t \in SharedCallers :
        /\ gc_pc[t] = "done" /\ made[t] = NULL /\ returned[t] # NULL
        /\ \E u \in SharedCallers : u # t /\ made[u] = returned[t]

\* -------------------------------------------------------- EnqueueBlockingWork

Tasks == 1..MaxTasks

InitBlocking ==
    /\ task_holder = [t \in Tasks |-> "caller"]
    /\ eb_pc = [t \in Tasks |-> "idle"]
    /\ eb_result = [t \in Tasks |-> FALSE]
    /\ queue_answer = [t \in Tasks |-> "none"]

\* The caller moves its closure into the parameter work.
EnqueueBlockingWork(t) ==
    /\ eb_pc[t] = "idle"
    /\ task_holder' = [task_holder EXCEPT ![t] = "work"]
    /\ eb_pc' = [eb_pc EXCEPT ![t] = "add_blocking_task"]
    /\ UNCHANGED <<eb_result, queue_answer>>
    /\ UNCHANGED notBlocking

\* ConcurrentWorkQueue::AddBlockingTask(task, allow_queuing = true): the queue
\* keeps the task, or rejects it and hands it back in the Optional.
AddBlockingTask(t, accept) ==
    /\ eb_pc[t] = "add_blocking_task"
    /\ accept => Cardinality({u \in Tasks : task_holder[u] = "queue"}) < BlockingQueueRoom
    /\ task_holder' = [task_holder EXCEPT ![t] = IF accept THEN "queue" ELSE "task"]
    /\ queue_answer' = [queue_answer EXCEPT ![t] = IF accept THEN "accepted" ELSE "rejected"]
    /\ eb_pc' = [eb_pc EXCEPT ![t] = "return"]
    /\ UNCHANGED eb_result
    /\ UNCHANGED notBlocking

\* EnqueuedResult with the test the wrong way round.
HasValueResult(has_value) == has_value

\* return !task.hasValue();
EnqueuedResult(has_value) == ~has_value

\* The return of EnqueueBlockingWork: the bool goes to the caller and the
\* local Optional task is destroyed, with the closure when it holds one.
ReturnEnqueueBlockingWork(t) ==
    /\ eb_pc[t] = "return"
    /\ eb_result' = [eb_result EXCEPT ![t] = EnqueuedResult(task_holder[t] = "task")]
    /\ task_holder' = [task_holder EXCEPT ![t] = IF @ = "task" THEN "destroyed" ELSE @]
    /\ eb_pc' = [eb_pc EXCEPT ![t] = "done"]
    /\ UNCHANGED queue_answer
    /\ UNCHANGED notBlocking

\* A thread of the blocking queue runs a task the queue holds.
RunBlockingTask(t) ==
    /\ task_holder[t] = "queue"
    /\ task_holder' = [task_holder EXCEPT ![t] = "executed"]
    /\ UNCHANGED <<eb_pc, eb_result, queue_answer>>
    /\ UNCHANGED notBlocking

NextBlocking ==
    \/ \E t \in Tasks : EnqueueBlockingWork(t)
    \/ \E t \in Tasks, accept \in BOOLEAN : AddBlockingTask(t, accept)
    \/ \E t \in Tasks : ReturnEnqueueBlockingWork(t)
    \/ \E t \in Tasks : RunBlockingTask(t)

\* -------------------------------------------- EnqueueBlockingWork: properties

\* The bool says what the queue did.
ResultTellsAnswer ==
    \A t \in Tasks :
        eb_pc[t] = "done" =>
            /\ eb_result[t] <=> queue_answer[t] = "accepted"
            /\ ~eb_result[t] <=> queue_answer[t] = "rejected"

\* C10 as stated: EnqueueBlockingWork returns true exactly when the queue
\* accepted the task and false exactly when it rejected it, and on rejection
\* the closure is back with the caller, who can run or resubmit it.
C10_RejectedTaskBackWithCaller ==
    /\ ResultTellsAnswer
    /\ \A t \in Tasks :
           eb_pc[t] = "done" /\ queue_answer[t] = "rejected" => task_holder[t] = "caller"

\* C10 as amended: the bool says what the queue did; on rejection the queue
\* hands the closure back to EnqueueBlockingWork, which destroys it on return,
\* so the caller holds no task.
C10_RejectedTaskDestroyed ==
    /\ ResultTellsAnswer
    /\ \A t \in Tasks :
           /\ task_holder[t] = "task" => eb_pc[t] = "return" /\ queue_answer[t] = "rejected"
           /\ eb_pc[t] = "done" /\ queue_answer[t] = "rejected" => task_holder[t] = "destroyed"
           /\ eb_pc[t] # "idle" => task_holder[t] # "caller"

\* One call returned false for a rejected task, another true for an accepted one.
C10_Witness ==
    \E t, u \in Tasks :
        /\ eb_pc[t] = "done" /\ queue_answer[t] = "rejected" /\ ~eb_result[t]
        /\ task_holder[t] = "destroyed"
        /\ eb_pc[u] = "done" /\ queue_answer[u] = "accepted" /\ eb_result[u]

\* --------------------------------- HostContext construction and destruction

Contexts == 1..MaxContexts

\* HostContextPtr::kDummyIndex, the length of all_host_contexts_: the largest
\* value of the index byte.
kDummyIndex == 2 ^ IndexBits - 1

\* HostContextPtr keeps the int it is constructed from in IndexBits bits.
InstanceIndex(i) == i % (2 ^ IndexBits)

\* next_host_context_index is an int: fetch_add wraps.
IntAdd(a, b) == ((a + b + IntMod \div 2) % IntMod) - IntMod \div 2

\* The process has ended in abort() or in a fault.
ProcessEnded == \E c \in Contexts : hc_pc[c] \in {"aborted", "crashed"}

InitLife ==
    /\ next_host_context_index = 0
    /\ all_host_contexts_ = [i \in 0..(kDummyIndex - 1) |-> NULL]
    /\ hc_pc = [c \in Contexts |-> "none"]
    /\ instance_ptr_ = [c \in Contexts |-> -1]
    /\ ready_chain_ = [c \in Contexts |-> "none"]
    /\ allocator_ = [c \in Contexts |-> "none"]
    /\ work_queue_ = [c \in Contexts |-> "none"]
    /\ shared_context_mgr_ = [c \in Contexts |-> "none"]
    /\ dtor_log = [c \in Contexts |-> <<>>]
    /\ stray_writes = {}

\* The member initializers of HostContext::HostContext, the fetch_add included.
\* The HostContexts are numbered in the order of their fetch_add.
CtorInitMembers(c) ==
    /\ ~ProcessEnded
    /\ hc_pc[c] = "none"
    /\ IF c = 1 THEN TRUE ELSE hc_pc[c - 1] # "none"
    /\ allocator_' = [allocator_ EXCEPT ![c] = "alive"]
    /\ work_queue_' = [work_queue_ EXCEPT ![c] = "alive"]
    /\ shared_context_mgr_' = [shared_context_mgr_ EXCEPT ![c] = "alive"]
    /\ instance_ptr_' = [instance_ptr_ EXCEPT ![c] = InstanceIndex(next_host_context_index)]
    /\ next_host_context_index' = IntAdd(next_host_context_index, 1)
    /\ hc_pc' = [hc_pc EXCEPT ![c] = "assert"]
    /\ UNCHANGED <<all_host_contexts_, ready_chain_, dtor_log, stray_writes>>
    /\ UNCHANGED notLife

\* assert(instance_index() < HostContextPtr::kDummyIndex): abort() unless the
\* build defines NDEBUG.
CtorAssert(c) ==
    /\ ~ProcessEnded
    /\ hc_pc[c] = "assert"
    /\ hc_pc' = [hc_pc EXCEPT ![c] =
                    IF ~ndebug /\ ~(instance_ptr_[c] < kDummyIndex) THEN "aborted" ELSE "store"]
    /\ UNCHANGED <<next_host_context_index, all_host_contexts_, instance_ptr_, ready_chain_,
                   allocator_, work_queue_, shared_context_mgr_, dtor_log, stray_writes>>
    /\ UNCHANGED notLife

\* all_host_contexts_[instance_index()] = ptr by HostContext c, which goes on
\* at next_pc.  A write past the end of the array is undefined: it faults, or
\* it lands outside the table.
WriteTable(c, ptr, next_pc) ==
    IF instance_ptr_[c] < kDummyIndex
    THEN /\ all_host_contexts_' = [all_host_contexts_ EXCEPT ![instance_ptr_[c]] = ptr]
         /\ hc_pc' = [hc_pc EXCEPT ![c] = next_pc]
         /\ UNCHANGED stray_writes
    ELSE \E faults \in BOOLEAN :
             /\ hc_pc' = [hc_pc EXCEPT ![c] = IF faults THEN "crashed" ELSE next_pc]
             /\ stray_writes' = IF faults THEN stray_writes
                                ELSE stray_writes \cup {instance_ptr_[c]}
             /\ UNCHANGED all_host_contexts_

\* all_host_contexts_[instance_index()] = this
CtorStore(c) ==
    /\ ~ProcessEnded
    /\ hc_pc[c] = "store"
    /\ WriteTable(c, c, "ready_chain")
    /\ UNCHANGED <<next_host_context_index, instance_ptr_, ready_chain_, allocator_,
                   work_queue_, shared_context_mgr_, dtor_log>>
    /\ UNCHANGED notLife

\* ready_chain_ = MakeAvailableAsyncValueRef<Chain>(); the constructor returns.
CtorReadyChain(c) ==
    /\ ~ProcessEnded
    /\ hc_pc[c] = "ready_chain"
    /\ ready_chain_' = [ready_chain_ EXCEPT ![c] = "available"]
    /\ hc_pc' = [hc_pc EXCEPT ![c] = "live"]
    /\ UNCHANGED <<next_host_context_index, all_host_contexts_, instance_ptr_, allocator_,
                   work_queue_, shared_context_mgr_, dtor_log, stray_writes>>
    /\ UNCHANGED notLife

\* A destructor that leaves ready_chain_ to the destruction of the members.
DtorKeepReadyChain(c) ==
    /\ ~ProcessEnded
    /\ hc_pc[c] = "live"
    /\ hc_pc' = [hc_pc EXCEPT ![c] = "clear_slot"]
    /\ UNCHANGED <<next_host_context_index, all_host_contexts_, instance_ptr_, ready_chain_,
                   allocator_, work_queue_, shared_context_mgr_, dtor_log, stray_writes>>
    /\ UNCHANGED notLife

\* ~HostContext: ready_chain_.reset()
DtorResetReadyChain(c) ==
    /\ ~ProcessEnded
    /\ hc_pc[c] = "live"
    /\ ready_chain_' = [ready_chain_ EXCEPT ![c] = "freed"]
    /\ dtor_log' = [dtor_log EXCEPT ![c] = Append(@, "ready_chain")]
    /\ hc_pc' = [hc_pc EXCEPT ![c] = "clear_slot"]
    /\ UNCHANGED <<next_host_context_index, all_host_contexts_, instance_ptr_, allocator_,
                   work_queue_, shared_context_mgr_, stray_writes>>
    /\ UNCHANGED notLife

\* ~HostContext: all_host_contexts_[instance_index()] = nullptr
DtorClearSlot(c) ==
    /\ ~ProcessEnded
    /\ hc_pc[c] = "clear_slot"
    /\ WriteTable(c, NULL, "shared_context_mgr")
    /\ dtor_log' = [dtor_log EXCEPT ![c] = Append(@, "slot")]
    /\ UNCHANGED <<next_host_context_index, instance_ptr_, ready_chain_, allocator_,
                   work_queue_, shared_context_mgr_>>
    /\ UNCHANGED notLife

\* The members are destroyed in the reverse of the order in which the
\* constructor initializes them: shared_context_mgr_ first.
DtorSharedContextMgr(c) ==
    /\ ~ProcessEnded
    /\ hc_pc[c] = "shared_context_mgr"
    /\ shared_context_mgr_' = [shared_context_mgr_ EXCEPT ![c] = "destroyed"]
    /\ dtor_log' = [dtor_log EXCEPT ![c] = Append(@, "shared_context_mgr")]
    /\ hc_pc' = [hc_pc EXCEPT ![c] = "work_queue"]
    /\ UNCHANGED <<next_host_context_index, all_host_contexts_, instance_ptr_, ready_chain_,
                   allocator_, work_queue_, stray_writes>>
    /\ UNCHANGED notLife

\* Then work_queue_.
DtorWorkQueue(c) ==
    /\ ~ProcessEnded
    /\ hc_pc[c] = "work_queue"
    /\ work_queue_' = [work_queue_ EXCEPT ![c] = "destroyed"]
    /\ dtor_log' = [dtor_log EXCEPT ![c] = Append(@, "work_queue")]
    /\ hc_pc' = [hc_pc EXCEPT ![c] = "allocator"]
    /\ UNCHANGED <<next_host_context_index, all_host_contexts_, instance_ptr_, ready_chain_,
                   allocator_, shared_context_mgr_, stray_writes>>
    /\ UNCHANGED notLife

\* Then allocator_, and after it the members declared before it: a
\* ready_chain_ that still holds its reference drops it now.
DtorAllocator(c) ==
    /\ ~ProcessEnded
    /\ hc_pc[c] = "allocator"
    /\ allocator_' = [allocator_ EXCEPT ![c] = "destroyed"]
    /\ ready_chain_' = [ready_chain_ EXCEPT ![c] = "freed"]
    /\ dtor_log' = [dtor_log EXCEPT ![c] =
                       IF ready_chain_[c] = "available"
                       THEN @ \o <<"allocator", "ready_chain">>
                       ELSE Append(@, "allocator")]
    /\ hc_pc' = [hc_pc EXCEPT ![c] = "destroyed"]
    /\ UNCHANGED <<next_host_context_index, all_host_contexts_, instance_ptr_,
                   work_queue_, shared_context_mgr_, stray_writes>>
    /\ UNCHANGED notLife

NextLife ==
    \/ \E c \in Contexts : CtorInitMembers(c)
    \/ \E c \in Contexts : CtorAssert(c)
    \/ \E c \in Contexts : CtorStore(c)
    \/ \E c \in Contexts : CtorReadyChain(c)
    \/ \E c \in Contexts : DtorResetReadyChain(c)
    \/ \E c \in Contexts : DtorClearSlot(c)
    \/ \E c \in Contexts : DtorSharedContextMgr(c)
    \/ \E c \in Contexts : DtorWorkQueue(c)
    \/ \E c \in Contexts : DtorAllocator(c)

\* --------------------- HostContext construction and destruction: properties

\* The constructor of c has returned and its destructor has not begun.
Live(c) == hc_pc[c] = "live"

\* The fetch_add of c's constructor has happened.
Indexed(c) == hc_pc[c] # "none"

IndexInRange(c) == instance_ptr_[c] \in 0..(kDummyIndex - 1)

UniqueIndices ==
    /\ \A c, d \in Contexts : Live(c) /\ Live(d) /\ c # d => instance_ptr_[c] # instance_ptr_[d]
    /\ \A c \in Contexts : Live(c) => IndexInRange(c) /\ all_host_contexts_[instance_ptr_[c]] = c
    /\ \A c, d \in Contexts :
           Indexed(c) /\ Indexed(d) /\ c # d => instance_ptr_[c] # instance_ptr_[d]

\* C11: two live HostContexts never have the same instance index, the table
\* entry at a live HostContext's index is that HostContext, and an index
\* assigned once is never assigned again, also after its slot was cleared.
C11_IndicesUniqueNeverReused == UniqueIndices

\* The same for as long as the counter has not passed the table's length.
IndicesUniqueWhileCounterFits == next_host_context_index <= kDummyIndex => UniqueIndices

\* Two HostContexts are live in an asserting build, after another one was
\* destroyed and its slot cleared.
IndicesWitness ==
    /\ ~ndebug
    /\ \E c, d, e \in Contexts :
           /\ c # d /\ Live(c) /\ Live(d)
           /\ hc_pc[e] = "destroyed" /\ all_host_contexts_[instance_ptr_[e]] = NULL

InRangeOnly ==
    /\ stray_writes = {}
    /\ \A c \in Contexts :
           hc_pc[c] \notin {"none", "assert", "aborted"} => IndexInRange(c)

\* C12: construction aborts when the counter has passed the table's length: no
\* HostContext is constructed with an instance index outside the table's range
\* and the table is never written at an out-of-range index.
C12_AbortsPastTable == InRangeOnly

\* The same in the builds that keep the assert.
InRangeWhenAsserting == ~ndebug => InRangeOnly

\* An asserting build has aborted the construction that found the table full.
AbortWitness == ~ndebug /\ \E c \in Contexts : hc_pc[c] = "aborted"

DtorOrder == <<"ready_chain", "slot", "shared_context_mgr", "work_queue", "allocator">>

\* C13: destruction drops the ready chain first, while the allocator is alive,
\* then clears the slot, then tears down the shared-context manager, the work
\* queue and the allocator in that order; the ready chain is not freed after
\* the allocator.
C13_DestructionOrder ==
    \A c \in Contexts :
        /\ dtor_log[c] = SubSeq(DtorOrder, 1, Len(dtor_log[c]))
        /\ hc_pc[c] = "destroyed" => dtor_log[c] = DtorOrder
        /\ ready_chain_[c] = "freed" /\ dtor_log[c] # <<>> => dtor_log[c][1] = "ready_chain"
        /\ allocator_[c] = "destroyed" => ready_chain_[c] = "freed"

\* A HostContext has been destroyed to the end.
C13_Witness ==
    \E c \in Contexts :
        /\ hc_pc[c] = "destroyed"
        /\ allocator_[c] = "destroyed" /\ work_queue_[c] = "destroyed"
        /\ shared_context_mgr_[c] = "destroyed" /\ ready_chain_[c] = "freed"

\* ------------------------------------ AsyncValue: AndThen and the set calls

\* One AsyncValue: calls on different AsyncValues share no state.
AsyncValues == {1}
Waiters == 1..MaxWaiters
SetCalls == 1..MaxSetCalls

\* The thread that ran a waiter: the one that called AndThen, or the set call
\* that resolved the value; NoThread before it ran.
RegisteringThread == 0
NoThread == 0 - 1

\* AsyncValueRef::emplace(Expected<T> v): emplace(*v) or SetError(v.takeError()).
EmplaceExpected(has_value) == IF has_value THEN "emplace" ELSE "SetError"

\* The set calls of AsyncValueRef and the state each of them sets.
SetKinds == {"SetStateConcrete", "emplace", "SetError"}
TargetState(kind) == IF kind = "SetError" THEN "Error" ELSE "Concrete"

\* The state and the waiter stack of v are one atomic word.
Word(v) == <<state_[v], waiters_[v]>>

\* abort() has ended the process.
SetAborted == \E s \in SetCalls : set_pc[s] = "aborted"

InitSet ==
    /\ state_ = [v \in AsyncValues |-> "Unresolved"]
    /\ waiters_ = [v \in AsyncValues |-> <<>>]
    /\ payload_ = [v \in AsyncValues |-> 0]
    /\ aw_pc = [w \in Waiters |-> "idle"]
    /\ aw_value = [w \in Waiters |-> 0]
    /\ aw_seen = [w \in Waiters |-> <<"none", <<>>>>]
    /\ aw_loads = [w \in Waiters |-> 0]
    /\ aw_runs = [w \in Waiters |-> 0]
    /\ aw_thread = [w \in Waiters |-> NoThread]
    /\ aw_state_at_run = [w \in Waiters |-> "none"]
    /\ set_pc = [s \in SetCalls |-> "idle"]
    /\ set_value = [s \in SetCalls |-> 0]
    /\ set_state = [s \in SetCalls |-> "none"]
    /\ notify = [s \in SetCalls |-> <<>>]
    /\ transitions = [v \in AsyncValues |-> 0]
    /\ rewritten = [v \in AsyncValues |-> FALSE]

\* Waiter w runs on thread t.
RunWaiter(w, t) ==
    /\ aw_runs' = [aw_runs EXCEPT ![w] = @ + 1]
    /\ aw_thread' = [aw_thread EXCEPT ![w] = t]
    /\ aw_state_at_run' = [aw_state_at_run EXCEPT ![w] = state_[aw_value[w]]]
    /\ aw_pc' = [aw_pc EXCEPT ![w] = "ran"]

\* AsyncValueRef::AndThen(waiter) on v: AsyncValue::AndThen loads the word
\* and, when the state in it is resolved, runs the waiter at once on the
\* calling thread.
AndThenLoad(w, v) ==
    /\ ~SetAborted
    /\ IF aw_pc[w] = "idle"
       THEN IF w = 1 THEN TRUE ELSE aw_pc[w - 1] # "idle"
       ELSE aw_pc[w] = "retry" /\ v = aw_value[w]
    /\ aw_value' = [aw_value EXCEPT ![w] = v]
    /\ aw_loads' = [aw_loads EXCEPT ![w] = Min(@ + 1, 2)]
    /\ IF state_[v] # "Unresolved"
       THEN /\ aw_seen' = [aw_seen EXCEPT ![w] = <<state_[v], <<>>>>]
            /\ aw_runs' = [aw_runs EXCEPT ![w] = @ + 1]
            /\ aw_thread' = [aw_thread EXCEPT ![w] = RegisteringThread]
            /\ aw_state_at_run' = [aw_state_at_run EXCEPT ![w] = state_[v]]
            /\ aw_pc' = [aw_pc EXCEPT ![w] = "ran"]
       ELSE /\ aw_seen' = [aw_seen EXCEPT ![w] = Word(v)]
            /\ aw_pc' = [aw_pc EXCEPT ![w] = "loaded"]
            /\ UNCHANGED <<aw_runs, aw_thread, aw_state_at_run>>
    /\ UNCHANGED <<state_, waiters_, payload_, set_pc, set_value, set_state, notify,
                   transitions, rewritten>>
    /\ UNCHANGED notSet

\* A push that does not compare the word with the one loaded.
AndThenPushBlind(w) ==
    /\ ~SetAborted
    /\ aw_pc[w] = "loaded"
    /\ waiters_' = [waiters_ EXCEPT ![aw_value[w]] = <<w>> \o @]
    /\ aw_pc' = [aw_pc EXCEPT ![w] = "stored"]
    /\ aw_seen' = [aw_seen EXCEPT ![w] = <<"Unresolved", <<>>>>]
    /\ UNCHANGED <<state_, payload_, aw_value, aw_loads, aw_runs, aw_thread, aw_state_at_run,
                   set_pc, set_value, set_state, notify, transitions, rewritten>>
    /\ UNCHANGED notSet

\* The loaded state is unresolved: the waiter is pushed on the stack with a
\* compare-exchange of the word, which sends the call back to the load when
\* the word has changed.
AndThenPush(w) ==
    /\ ~SetAborted
    /\ aw_pc[w] = "loaded"
    /\ IF Word(aw_value[w]) = aw_seen[w]
       THEN /\ waiters_' = [waiters_ EXCEPT ![aw_value[w]] = <<w>> \o @]
            /\ aw_pc' = [aw_pc EXCEPT ![w] = "stored"]
       ELSE /\ aw_pc' = [aw_pc EXCEPT ![w] = "retry"]
            /\ UNCHANGED waiters_
    /\ aw_seen' = [aw_seen EXCEPT ![w] = <<"Unresolved", <<>>>>]
    /\ UNCHANGED <<state_, payload_, aw_value, aw_loads, aw_runs, aw_thread, aw_state_at_run,
                   set_pc, set_value, set_state, notify, transitions, rewritten>>
    /\ UNCHANGED notSet

\* SetStateConcrete, emplace or SetError on v begins; emplace constructs the
\* payload in place before the transition.
SetBegin(s, v, kind) ==
    /\ ~SetAborted
    /\ set_pc[s] = "idle"
    /\ IF s = 1 THEN TRUE ELSE set_pc[s - 1] # "idle"
    /\ set_value' = [set_value EXCEPT ![s] = v]
    /\ set_state' = [set_state EXCEPT ![s] = TargetState(kind)]
    /\ payload_' = IF kind = "emplace" THEN [payload_ EXCEPT ![v] = s] ELSE payload_
    /\ set_pc' = [set_pc EXCEPT ![s] = "transition"]
    /\ UNCHANGED <<state_, waiters_, aw_pc, aw_value, aw_seen, aw_loads, aw_runs, aw_thread,
                   aw_state_at_run, notify, transitions, rewritten>>
    /\ UNCHANGED notSet

\* Where a set call goes on with the waiters still to run: it returns when
\* there is none.
AfterNotify(waiters) == IF waiters = <<>> THEN "done" ELSE "notifying"

\* A set call on a resolved value: DoubleResolve.  It aborts in a debug build
\* and is undefined in a release build, where the state is left alone or
\* overwritten.
DoubleResolve(s) ==
    IF ~ndebug
    THEN /\ set_pc' = [set_pc EXCEPT ![s] = "aborted"]
         /\ UNCHANGED <<state_, rewritten>>
    ELSE \E overwrites \in BOOLEAN :
             /\ state_' = IF overwrites THEN [state_ EXCEPT ![set_value[s]] = set_state[s]]
                          ELSE state_
             /\ rewritten' = [rewritten EXCEPT ![set_value[s]] =
                                 @ \/ state_'[set_value[s]] # state_[set_value[s]]]
             /\ set_pc' = [set_pc EXCEPT ![s] = "failed"]

\* A transition that overwrites a resolved state in every build.
TransitionExchange(s) ==
    /\ ~SetAborted
    /\ set_pc[s] = "transition"
    /\ state_' = [state_ EXCEPT ![set_value[s]] = set_state[s]]
    /\ notify' = [notify EXCEPT ![s] = waiters_[set_value[s]]]
    /\ waiters_' = [waiters_ EXCEPT ![set_value[s]] = <<>>]
    /\ transitions' = [transitions EXCEPT ![set_value[s]] =
                          IF state_[set_value[s]] = "Unresolved" THEN @ + 1 ELSE @]
    /\ rewritten' = [rewritten EXCEPT ![set_value[s]] =
                        @ \/ (state_[set_value[s]] # "Unresolved"
                              /\ state_[set_value[s]] # set_state[s])]
    /\ set_pc' = [set_pc EXCEPT ![s] = AfterNotify(waiters_[set_value[s]])]
    /\ UNCHANGED <<payload_, aw_pc, aw_value, aw_seen, aw_loads, aw_runs, aw_thread, aw_state_at_run,
                   set_value, set_state>>
    /\ UNCHANGED notSet

\* The transition: one compare-exchange of the word, which on success sets the
\* state and detaches the waiter stack.
Transition(s) ==
    /\ ~SetAborted
    /\ set_pc[s] = "transition"
    /\ IF state_[set_value[s]] = "Unresolved"
       THEN /\ state_' = [state_ EXCEPT ![set_value[s]] = set_state[s]]
            /\ notify' = [notify EXCEPT ![s] = waiters_[set_value[s]]]
            /\ waiters_' = [waiters_ EXCEPT ![set_value[s]] = <<>>]
            /\ transitions' = [transitions EXCEPT ![set_value[s]] = @ + 1]
            /\ set_pc' = [set_pc EXCEPT ![s] = AfterNotify(waiters_[set_value[s]])]
            /\ UNCHANGED rewritten
       ELSE /\ DoubleResolve(s)
            /\ UNCHANGED <<waiters_, notify, transitions>>
    /\ UNCHANGED <<payload_, aw_pc, aw_value, aw_seen, aw_loads, aw_runs, aw_thread, aw_state_at_run,
                   set_value, set_state>>
    /\ UNCHANGED notSet

\* The winner of the transition runs the next detached waiter, newest first,
\* and returns after the last.
RunNextWaiter(s) ==
    /\ ~SetAborted
    /\ set_pc[s] = "notifying"
    /\ RunWaiter(Head(notify[s]), s)
    /\ notify' = [notify EXCEPT ![s] = Tail(@)]
    /\ set_pc' = [set_pc EXCEPT ![s] = AfterNotify(Tail(notify[s]))]
    /\ UNCHANGED <<state_, waiters_, payload_, aw_value, aw_seen, aw_loads, set_value,
                   set_state, transitions, rewritten>>
    /\ UNCHANGED notSet

NextSet ==
    \/ \E w \in Waiters, v \in AsyncValues : AndThenLoad(w, v)
    \/ \E w \in Waiters : AndThenPush(w)
    \/ \E s \in SetCalls, v \in AsyncValues, kind \in SetKinds : SetBegin(s, v, kind)
    \/ \E s \in SetCalls, v \in AsyncValues, has_value \in BOOLEAN :
           SetBegin(s, v, EmplaceExpected(has_value))
    \/ \E s \in SetCalls : Transition(s)
    \/ \E s \in SetCalls : RunNextWaiter(s)

\* ------------------------- AsyncValue: AndThen and the set calls, properties

InSeq(x, seq) == \E i \in 1..Len(seq) : seq[i] = x

\* Waiter w is on the stack of its unresolved value, or detached by the set
\* call that resolved the value and still to be run by it.
Pending(w) ==
    /\ aw_value[w] \in AsyncValues
    /\ \/ InSeq(w, waiters_[aw_value[w]]) /\ state_[aw_value[w]] = "Unresolved"
       \/ \E s \in SetCalls : InSeq(w, notify[s]) /\ set_pc[s] = "notifying"

\* C14: AndThen(w) runs w exactly once: at once on the registering thread when
\* the value is already resolved; when it is unresolved w is stored and runs
\* once after the value resolves, never before, also when the registration
\* races with the resolution.
C14_WaiterRunsOnce ==
    \A w \in Waiters :
        /\ aw_runs[w] <= 1
        /\ aw_runs[w] = 1 <=> aw_pc[w] = "ran"
        /\ aw_pc[w] = "ran" => aw_state_at_run[w] # "Unresolved"
        /\ aw_pc[w] = "ran" /\ aw_seen[w][1] # "Unresolved" => aw_thread[w] = RegisteringThread
        /\ aw_pc[w] = "ran" /\ aw_seen[w][1] = "Unresolved" => aw_thread[w] \in SetCalls
        /\ aw_pc[w] = "stored" => Pending(w)
        /\ aw_pc[w] # "stored" => ~Pending(w)

\* One waiter was stored and run by the set call that resolved its value;
\* another lost the race with that resolution, loaded again and ran on its
\* own thread.
C14_Witness ==
    \E w, x \in Waiters :
        /\ aw_pc[w] = "ran" /\ aw_thread[w] \in SetCalls
        /\ aw_pc[x] = "ran" /\ aw_thread[x] = RegisteringThread /\ aw_loads[x] = 2
        /\ aw_value[x] = aw_value[w]
        /\ \E s \in SetCalls : set_pc[s] = "done" /\ set_value[s] = aw_value[w]

SetOnce ==
    \A v \in AsyncValues :
        /\ transitions[v] <= 1
        /\ ~rewritten[v]
        /\ state_[v] = "Unresolved" <=> transitions[v] = 0

\* A set call found its value resolved.
Doubled(s) == set_pc[s] \in {"aborted", "failed"}

Init ==
    /\ ndebug \in BOOLEAN
    /\ InitPF
    /\ InitAV
    /\ InitRWR
    /\ InitCancel
    /\ InitShared
    /\ InitBlocking
    /\ InitLife
    /\ InitSet

Next == NextPF \/ NextRWR \/ NextCancel \/ NextShared \/ NextBlocking \/ NextLife \/ NextSet

Spec == Init /\ [][Next]_vars

SpecPF == Init /\ [][NextPF]_vars

\* The work queue runs every enqueued task, compute returns and every thread
\* in EvalBlocks goes on.
FairPF ==
    /\ WF_vars(SyncComputeReturn)
    /\ WF_vars(SyncOnDone)
    /\ WF_vars(\E f \in frames : EvalSplit(f))
    /\ WF_vars(\E f \in frames : EvalCompute(f))
    /\ WF_vars(\E f \in frames : ComputeReturn(f))
    /\ WF_vars(\E f \in frames : EvalFetchSub(f))
    /\ WF_vars(\E f \in frames : EvalDelete(f))
    /\ WF_vars(\E t \in work_queue : RunTask(t))

SpecPFLive == Init /\ [][NextPF]_vars /\ FairPF

SpecRWR == Init /\ [][NextRWR]_vars

SpecCancel == Init /\ [][NextCancel]_vars

SpecShared == Init /\ [][NextShared]_vars

SpecBlocking == Init /\ [][NextBlocking]_vars

SpecLife == Init /\ [][NextLife]_vars

SpecSet == Init /\ [][NextSet]_vars

====
